---- MODULE Spec2Model ----
(***************************************************************************)
(* Task execution and signature caching of SoS:                            *)
(*   src/src/sos/task_executor.py   _execute_task, collect_task_result     *)
(*   src/src/sos/executor_utils.py  validate_step_sig                      *)
(* Every process of Procs performs one call: either one invocation of      *)
(* _execute_task for the task (all invocations share the task definition   *)
(* and therefore the fingerprint), or one call of validate_step_sig for    *)
(* the step the task belongs to.                                           *)
(* A master task (a task definition with a task_stack) is modelled by the  *)
(* specification MasterSpec: two master processes run the same stack, one  *)
(* with num_workers = 1 and one with a pool of workers.                    *)
(***************************************************************************)
EXTENDS Integers, Sequences, FiniteSets, TLC

\* ---------------------------------------------------------------- bounds
NumProcs == 2
MaxModify == 1
MaxDigest == 2
NumSubs == 2
MaxWorkers == 2
MaxPathLen == 3

Procs == 1..NumProcs
Digests == 1..MaxDigest
Absent == 0

\* ------------------------------------------------------- program constants
RecognizedModes == {"ignore", "default", "assert", "build", "force"}
SigModes == RecognizedModes \cup {"bogus"}
NoneArg == "None"
RunModes == {"run", "dryrun"}
DefaultSigMode == "default"

InputFiles == {"in"}
OutputFiles == {"out"}
DependFiles == {}
Files == InputFiles \cup OutputFiles \cup DependFiles
\* a sos_step target among the dependencies
StepRefs == {"prev_step"}
Dirs == {"start_dir", "cur_dir", "workdir"}

TaskFp == "task"
StepFp == "step"
Fingerprints == {TaskFp, StepFp}

TaskIndex == 0
Unbound == 0
SharedForms == {"absent", "str", "mapping"}
\* strings: the characters of path values, os.pathsep among them
Chars == {"a", "b", ":"}
PathSep == <<":">>
Strings == UNION {[1..n -> Chars] : n \in 0..MaxPathLen}
BodyOutcomes == {"ok", "stop", "interrupt", "cmdfail", "error"}
\* options of sos_dict['_runtime'] that environment staging reads, and the
\* failures of lines 435 and 460
RuntimeOptions == {"cur_dir", "workdir", "prepend_path"}
StagingFailures == {"workdir", "prepend_path"}
CurDirCases == {"stay", "enter", "chdir_error"}
NoFile == [written |-> FALSE]
CmdReturnCodes == {2}

NoRecord == [exists |-> FALSE]
NoResult == [pending |-> TRUE]
NoExc == [type |-> "none"]
EmptyColl == <<>>
NoAnswer == [kind |-> "none"]

Masters == {"seq", "pool"}
Workers == 0..MaxWorkers
NoOutcome == [how |-> "pending"]
SubInputs == [sig : BOOLEAN, missing : BOOLEAN, body : BodyOutcomes]

VARIABLES
    kind,        \* kind[p]: "task" (_execute_task) or "step" (validate_step_sig)
    pc,          \* position of each call
    config,      \* env.config of the process: run_mode, sig_mode
    ctx,         \* env.sos_dict of the process: _input, _output, _depends, v
    monitor,     \* ProcessMonitor of the invocation is running
    locked,      \* the invocations holding the lock of the task fingerprint
    store,       \* Signature Store: fingerprint -> record
    fs,          \* file system: file -> content digest (Absent = no file)
    usesSosRun,  \* 'sos_run' in __signature_vars__
    sharedForm,  \* form of _runtime['shared'] of the task
    outcome,     \* "pending", "returned", "raised"
    result,      \* value returned by _execute_task
    raised,      \* exception that left the call
    stepRet,     \* outcome of validate_step_sig
    log,         \* log[p]: the steps of the call, in the order they happened
    modCount,    \* number of changes made to files from outside
    changers,    \* changers[p]: who else changed files since call p began
    prior,       \* the calls that had ended when this one began
    inputIsList, \* sos_dict['_input'] and ['_depends'] are plain lists
    sigAnswer,   \* what sig.validate() or sig.write(rebuild=True) answered
    bodyOut,     \* how the body (SoS_exec(task)) ended
    cwd,         \* working directory of the process of the call
    resFile,     \* the .res file execute_task wrote for the task
    exitCode,    \* what execute_task returned
    runtime,     \* the options present in sos_dict['_runtime'] of the task
    startCwd,    \* working directory of the process when the call began
    mPc,         \* position of each master invocation of _execute_task
    numWorkers,  \* params.num_workers of each master
    mArgs,       \* the runmode and sigmode arguments of the masters
    subIn,       \* task_stack: what each sub-task meets when it is executed
    subSt,       \* subSt[m][i]: "new", "queued", "running", "finished", "lost"
    subOut,      \* subOut[m][i]: how the invocation for sub-task i ended
    wjob,        \* wjob[m][w]: the sub-task pool worker w is executing (0: idle)
    wenv,        \* wenv[m][w]: env.sos_dict of process w of master m (0: the master)
    got,         \* got[m]: the entries of `results` the master holds
    mOut,        \* how the master invocation ended
    mReport,     \* the sub-task ids the master logged as failed
    envKey,      \* a key of sos_dict['_runtime']['env']: is 'PATH' in it
    envValue,    \* the value configured for that key
    inheritedEnv,\* os.environ[key] when the invocation began
    osEnviron,   \* os.environ[key] of the process
    envOut       \* how the staging of that key ended

tvars == <<kind, pc, config, ctx, monitor, locked, store, fs, usesSosRun,
           sharedForm, outcome, result, raised, stepRet, log, modCount,
           changers, prior, inputIsList, sigAnswer, bodyOut, cwd, resFile,
           exitCode, runtime, startCwd>>

mvars == <<mPc, numWorkers, mArgs, subIn, subSt, subOut, wjob, wenv, got,
           mOut, mReport>>

evars == <<envKey, envValue, inheritedEnv, osEnviron, envOut>>

vars == <<tvars, mvars, evars>>

\* ----------------------------------------------------- Signature Store (4.1)
DigestMap(S, f) == [x \in S |-> f[x]]

CurrentRecord(f, v) ==
    [exists |-> TRUE, input |-> DigestMap(InputFiles, f),
     output |-> DigestMap(OutputFiles, f),
     depends |-> DigestMap(DependFiles, f), vars |-> v]

\* validate(handle) -> Matched(resolved values) | Mismatch(reason)
Validate(rec, f) ==
    IF ~rec.exists THEN [kind |-> "mismatch", reason |-> "missing signature"]
    ELSE IF \/ rec.input # DigestMap(InputFiles, f)
            \/ rec.output # DigestMap(OutputFiles, f)
            \/ rec.depends # DigestMap(DependFiles, f)
         THEN [kind |-> "mismatch", reason |-> "changed target"]
         ELSE [kind |-> "matched", input |-> rec.input, output |-> rec.output,
               depends |-> rec.depends, vars |-> rec.vars]

\* write(handle, rebuild): rebuild requires the declared outputs to exist
CanWrite(rebuild, f) == rebuild => \A x \in OutputFiles : f[x] # Absent

\* lock(handle): exclusive, blocks while another invocation holds it
CanLock(holders) == holders = {}

\* ------------------------------------------------------------ pure helpers
EffectiveSigMode(cur, runmode, sigmode) ==
    IF runmode = "dryrun" THEN "ignore"
    ELSE IF sigmode # NoneArg THEN sigmode
    ELSE cur

AfterBeginNoLock(mode) == IF mode = "ignore" THEN "stage" ELSE "decide"
\* lines 320-330: no signature in 'ignore' mode, sig.lock() otherwise
AfterBegin(mode) == IF mode = "ignore" THEN "stage" ELSE "lock"

\* Lines 333-370: what the caching decision of _execute_task does with the
\* answer of the store, per signature mode. v is the answer of validate(),
\* built the answer of write(rebuild=True).
SkipAdopt == [act |-> "skip", adopt |-> TRUE, err |-> "none"]
SkipOnly == [act |-> "skip", adopt |-> FALSE, err |-> "none"]
Run == [act |-> "run", adopt |-> FALSE, err |-> "none"]
RaiseErr(e) == [act |-> "raise", adopt |-> FALSE, err |-> e]

\* lines 333-344
DefaultDecision(v) == IF v.kind = "matched" THEN SkipAdopt ELSE Run

AssertDecisionRerun(v) == IF v.kind = "mismatch" THEN Run ELSE SkipAdopt
\* lines 345-356
AssertDecision(v) ==
    IF v.kind = "mismatch" THEN RaiseErr("Signature mismatch") ELSE SkipAdopt

BuildDecisionAlwaysRuns(built) == Run
\* lines 357-365
BuildDecision(built) == IF built THEN SkipOnly ELSE Run

UnrecognizedDecisionAsForce(mode) == Run
\* lines 368-370
UnrecognizedDecision(mode) == RaiseErr("Unrecognized signature mode")

TaskDecision(mode, v, built) ==
    IF mode = "default" THEN DefaultDecision(v)
    ELSE IF mode = "assert" THEN AssertDecision(v)
    ELSE IF mode = "build" THEN BuildDecision(built)
    ELSE IF mode = "force" THEN Run
    ELSE UnrecognizedDecision(mode)

\* Which store operation the caching decision of _execute_task performs.
TaskStoreOp(mode) ==
    IF mode \in {"default", "assert"} THEN "validate"
    ELSE IF mode = "build" THEN "write_rebuild"
    ELSE "none"

\* validate_step_sig, lines 161-202: the value returned or the error raised.
StepDecision(mode, sosrun, v, built) ==
    IF mode = "default" THEN
        IF sosrun THEN [act |-> "return", value |-> "empty", err |-> "none"]
        ELSE IF v.kind = "matched" THEN [act |-> "return", value |-> "matched", err |-> "none"]
        ELSE [act |-> "return", value |-> "empty", err |-> "none"]
    ELSE IF mode = "assert" THEN
        IF v.kind = "mismatch" THEN [act |-> "raise", value |-> "none", err |-> "Signature mismatch"]
        ELSE [act |-> "return", value |-> "matched", err |-> "none"]
    ELSE IF mode = "build" THEN
        IF sosrun THEN [act |-> "return", value |-> "empty", err |-> "none"]
        ELSE IF built THEN [act |-> "return", value |-> "content", err |-> "none"]
        ELSE [act |-> "return", value |-> "None", err |-> "none"]
    ELSE IF mode = "force" THEN [act |-> "return", value |-> "empty", err |-> "none"]
    ELSE [act |-> "raise", value |-> "none", err |-> "Unrecognized signature mode"]

StepStoreOp(mode, sosrun) ==
    IF mode = "default" /\ ~sosrun THEN "validate"
    ELSE IF mode = "assert" THEN "validate"
    ELSE IF mode = "build" /\ ~sosrun THEN "write_rebuild"
    ELSE "none"

ClassifyOutcomeCatchAll(out) ==
    IF out = "ok" THEN "continue" ELSE "return"

ClassifyOutcomeSwallow(out) ==
    IF out \in {"ok", "error"} THEN "continue"
    ELSE IF out = "interrupt" THEN "raise"
    ELSE "return"

\* Lines 471-508: what each way the try block can end leads to.
ClassifyOutcome(out) ==
    IF out = "ok" THEN "continue"
    ELSE IF out = "interrupt" THEN "raise"
    ELSE "return"

\* collect_task_result, lines 26-66: the exported shared variables, or the
\* error. A name given as a string is looked up with the builtin `vars` as
\* the key (line 30), which is never bound.
SharedNames(form) == IF form = "absent" THEN {} ELSE {"v"}

SharedExportFails(form, c) ==
    IF form = "absent" THEN FALSE
    ELSE IF form = "str" THEN TRUE
    ELSE c.v = Unbound

\* collect_task_result, lines 67-98, for a task with the targets ins, outs
\* and deps and with _index idx
CollectResult(p, c, f, form, skip, ins, outs, deps, idx) ==
    [ret_code |-> 0, task |-> p,
     input |-> DigestMap(ins, f),
     output |-> DigestMap(outs, f),
     depends |-> DigestMap(deps, f),
     shared |-> [i \in {idx} |-> [n \in SharedNames(form) |-> c.v]],
     skipped |-> skip]

CollectTaskResult(p, c, f, form, skip) ==
    CollectResult(p, c, f, form, skip, InputFiles, OutputFiles, DependFiles,
                  TaskIndex)

StopResultFailed(p) ==
    [ret_code |-> 1, task |-> p, shared |-> EmptyColl,
     exception |-> [type |-> "StopInputGroup", msg |-> "stopped"]]

StopResult(p) ==
    [ret_code |-> 0, task |-> p, input |-> EmptyColl, output |-> EmptyColl,
     depends |-> EmptyColl, shared |-> EmptyColl]

CmdFailResult(p, rc) ==
    [ret_code |-> rc, task |-> p, shared |-> EmptyColl,
     exception |-> [type |-> "RuntimeError", msg |-> "stderr"]]

FailResult(p, e) ==
    [ret_code |-> 1, exception |-> e, task |-> p, shared |-> EmptyColl]

\* The value the caching decision got from the store.
StoreAnswer(op, v, built, rec) ==
    IF op = "validate" THEN v
    ELSE IF op = "write_rebuild"
         THEN (IF built THEN [kind |-> "written", rec |-> rec]
               ELSE [kind |-> "notwritten"])
         ELSE NoAnswer

\* The statements of lines 382-417 and of lines 419-464, in program order.
StageSteps == <<"cur_dir", "check_targets">>
\* the statements of lines 419-464 reached when the try block ends as `out`
StepsUntil(steps, out) ==
    IF out = "workdir" THEN SubSeq(steps, 1, 2)
    ELSE IF out = "prepend_path" THEN SubSeq(steps, 1, 3)
    ELSE steps
\* lines 435 and 460: the exceptions of environment staging
StagingError(out) ==
    IF out = "workdir"
    THEN [type |-> "RuntimeError", msg |-> "Failed to create workdir", detail |-> ""]
    ELSE [type |-> "ValueError", msg |-> "Unacceptable input for option prepend_path",
          detail |-> ""]
BodyStepsBodyFirst == <<"mkdir_output", "body", "workdir", "environ">>
BodySteps == <<"mkdir_output", "workdir", "environ", "body">>

ExcOf(type, msg, detail) == [type |-> type, msg |-> msg, detail |-> detail]

\* ------------------------------------------------------------------- Init
\* no master task: every process of Procs is a simple task or a step
NoMaster ==
    /\ mPc = [m \in Masters |-> "none"]
    /\ numWorkers = [m \in Masters |-> 1]
    /\ mArgs = [runmode |-> "run", sigmode |-> NoneArg]
    /\ subIn = << >>
    /\ subSt = [m \in Masters |-> << >>]
    /\ subOut = [m \in Masters |-> << >>]
    /\ wjob = [m \in Masters |-> [w \in Workers \ {0} |-> 0]]
    /\ wenv = [m \in Masters |-> [w \in Workers |-> Unbound]]
    /\ got = [m \in Masters |-> << >>]
    /\ mOut = [m \in Masters |-> NoOutcome]
    /\ mReport = [m \in Masters |-> << >>]

\* no entry of the env option is being staged
NoEnv ==
    /\ envKey = [pathLike |-> FALSE]
    /\ envValue = << >>
    /\ inheritedEnv = [set |-> FALSE]
    /\ osEnviron = [set |-> FALSE]
    /\ envOut = "none"

Init ==
    /\ NoMaster
    /\ NoEnv
    /\ kind \in [Procs -> {"task", "step"}]
    /\ \A p, q \in Procs : (p < q /\ kind[p] = "step") => kind[q] = "step"
    /\ pc = [p \in Procs |-> "start"]
    /\ config = [p \in Procs |-> [run_mode |-> "run", sig_mode |-> DefaultSigMode]]
    /\ ctx = [p \in Procs |-> [input |-> {}, output |-> {}, depends |-> {}, v |-> Unbound]]
    /\ monitor = [p \in Procs |-> FALSE]
    /\ locked = {}
    /\ store = [fp \in Fingerprints |-> NoRecord]
    /\ fs \in [Files -> {Absent, 1}]
    /\ usesSosRun \in BOOLEAN
    /\ sharedForm \in SharedForms
    /\ inputIsList \in BOOLEAN
    /\ outcome = [p \in Procs |-> "pending"]
    /\ result = [p \in Procs |-> NoResult]
    /\ raised = [p \in Procs |-> NoExc]
    /\ stepRet = [p \in Procs |-> [act |-> "pending"]]
    /\ log = [p \in Procs |-> << >>]
    /\ modCount = 0
    /\ changers = [p \in Procs |-> {}]
    /\ prior = [p \in Procs |-> {}]
    /\ sigAnswer = [p \in Procs |-> NoAnswer]
    /\ bodyOut = [p \in Procs |-> "none"]
    /\ cwd = [p \in Procs |-> "cur_dir"]
    /\ startCwd = cwd
    /\ runtime = {"cur_dir"}
    /\ resFile = [p \in Procs |-> NoFile]
    /\ exitCode = [p \in Procs |-> "none"]

Ended == {q \in Procs : pc[q] = "done"}

\* execute_task, lines 104-137: once _execute_task has returned, the result
\* is written to the .res file of the task and its return code is returned;
\* an exception of _execute_task leaves execute_task at line 104.
ExecuteTask(p) ==
    IF outcome'[p] = "returned" /\ outcome[p] # "returned"
    THEN /\ resFile' = [resFile EXCEPT ![p] = [written |-> TRUE, res |-> result'[p]]]
         /\ exitCode' = [exitCode EXCEPT ![p] = result'[p].ret_code]
    ELSE UNCHANGED <<resFile, exitCode>>

\* who changed a file: a call, or something outside of the tasks
Env == 0
Changed(who) ==
    [p \in Procs |-> IF pc[p] # "start" /\ p # who
                      THEN changers[p] \cup {who} ELSE changers[p]]

\* ---------------------------------------------------------- _execute_task
\* Lines 246-318: output files, preamble (global_def), monitor, run and
\* signature mode, snapshot of the task's variables.
Begin(p) ==
    /\ kind[p] = "task" /\ pc[p] = "start"
    /\ UNCHANGED <<mvars, evars, runtime, startCwd>>
    /\ \E runmode \in RunModes, sigmode \in SigModes \cup {NoneArg} :
        LET mode == EffectiveSigMode(config[p].sig_mode, runmode, sigmode) IN
        /\ config' = [config EXCEPT ![p] = [run_mode |-> runmode, sig_mode |-> mode]]
        /\ pc' = [pc EXCEPT ![p] = AfterBegin(mode)]
    /\ monitor' = [monitor EXCEPT ![p] = TRUE]
    /\ ctx' = [ctx EXCEPT ![p] = [input |-> InputFiles, output |-> OutputFiles,
                                  depends |-> DependFiles, v |-> Unbound]]
    /\ log' = [log EXCEPT ![p] = <<"preamble", "monitor_start", "snapshot">>]
    /\ prior' = [prior EXCEPT ![p] = Ended]
    /\ UNCHANGED <<kind, locked, store, fs, usesSosRun, sharedForm, outcome,
                   result, raised, stepRet, modCount, changers, inputIsList,
                   sigAnswer, bodyOut>>
    /\ UNCHANGED cwd
    /\ ExecuteTask(p)

\* Line 330: sig.lock()
Lock(p) ==
    /\ kind[p] = "task" /\ pc[p] = "lock"
    /\ UNCHANGED <<mvars, evars, runtime, startCwd>>
    /\ CanLock(locked)
    /\ locked' = locked \cup {p}
    /\ pc' = [pc EXCEPT ![p] = "decide"]
    /\ log' = [log EXCEPT ![p] = Append(@, "lock")]
    /\ UNCHANGED <<kind, config, ctx, monitor, store, fs, usesSosRun, sharedForm,
                   outcome, result, raised, stepRet, modCount, changers,
                   prior, inputIsList, sigAnswer, bodyOut>>
    /\ UNCHANGED cwd
    /\ ExecuteTask(p)

Adopt(c, v) ==
    [input |-> DOMAIN v.input, output |-> DOMAIN v.output,
     depends |-> DOMAIN v.depends, v |-> v.vars]

\* Lines 332-374: the caching decision, and the return of a skipped task.
Decide(p) ==
    /\ kind[p] = "task" /\ pc[p] = "decide"
    /\ UNCHANGED <<mvars, evars, runtime, startCwd>>
    /\ LET mode == config[p].sig_mode
           op == TaskStoreOp(mode)
           v == Validate(store[TaskFp], fs)
           built == op = "write_rebuild" /\ CanWrite(TRUE, fs)
           d == TaskDecision(mode, v, built)
           c == IF d.adopt THEN Adopt(ctx[p], v) ELSE ctx[p]
           oplog == IF op = "none" THEN << >> ELSE <<op>>
           fails == SharedExportFails(sharedForm, c)
       IN
        /\ store' = IF built THEN [store EXCEPT ![TaskFp] = CurrentRecord(fs, ctx[p].v)]
                     ELSE store
        /\ ctx' = [ctx EXCEPT ![p] = c]
        /\ sigAnswer' = [sigAnswer EXCEPT ![p] = StoreAnswer(op, v, built, CurrentRecord(fs, ctx[p].v))]
        /\ IF d.act = "raise" THEN
              /\ pc' = [pc EXCEPT ![p] = "done"]
              /\ outcome' = [outcome EXCEPT ![p] = "raised"]
              /\ raised' = [raised EXCEPT ![p] =
                     ExcOf("RuntimeError", d.err,
                           IF v.kind = "mismatch" /\ op = "validate" THEN v.reason ELSE mode)]
              /\ log' = [log EXCEPT ![p] = @ \o oplog]
              /\ UNCHANGED result
           ELSE IF d.act = "skip" THEN
              /\ pc' = [pc EXCEPT ![p] = "done"]
              /\ log' = [log EXCEPT ![p] = @ \o oplog \o <<"collect">>]
              /\ IF fails THEN
                    /\ outcome' = [outcome EXCEPT ![p] = "raised"]
                    /\ raised' = [raised EXCEPT ![p] =
                           ExcOf("ValueError", "Unavailable shared variable", "v")]
                    /\ UNCHANGED result
                 ELSE
                    /\ outcome' = [outcome EXCEPT ![p] = "returned"]
                    /\ result' = [result EXCEPT ![p] =
                           CollectTaskResult(p, c, fs, sharedForm, TRUE)]
                    /\ UNCHANGED raised
           ELSE
              /\ pc' = [pc EXCEPT ![p] = "stage"]
              /\ log' = [log EXCEPT ![p] = @ \o oplog]
              /\ UNCHANGED <<outcome, result, raised>>
    /\ UNCHANGED <<kind, config, monitor, locked, fs, usesSosRun, sharedForm,
                   stepRet, modCount, changers, prior, inputIsList, bodyOut>>
    /\ UNCHANGED cwd
    /\ ExecuteTask(p)

\* Lines 404-405: the targets whose existence is checked.
CheckedTargets(isList) ==
    IF isList THEN {t \in InputFiles \cup DependFiles \cup StepRefs : t \notin StepRefs}
    ELSE {}

\* Line 511: the finally block goes back to orig_dir
RestoreDir(orig_dir) == orig_dir

\* Lines 376-417 (and 483-516 when a target is missing): cur_dir, orig_dir
\* and the existence check of the input and dependency targets. When the
\* chdir of line 398 raises, orig_dir is not yet bound at line 511.
Stage(p) ==
    /\ kind[p] = "task" /\ pc[p] = "stage"
    /\ UNCHANGED <<mvars, evars, runtime, startCwd>>
    /\ \E cd \in (IF "cur_dir" \in runtime THEN CurDirCases ELSE {"stay"}) :
        LET missing == {f \in CheckedTargets(inputIsList) : fs[f] = Absent}
            orig_dir == IF cd = "enter" THEN "cur_dir" ELSE cwd[p]
        IN
        IF cd = "chdir_error" THEN
            /\ pc' = [pc EXCEPT ![p] = "done"]
            /\ log' = [log EXCEPT ![p] = @ \o <<"cur_dir">>]
            /\ outcome' = [outcome EXCEPT ![p] = "raised"]
            /\ raised' = [raised EXCEPT ![p] = ExcOf("UnboundLocalError", "orig_dir", "")]
            /\ UNCHANGED <<result, cwd>>
        ELSE IF missing # {} THEN
            /\ pc' = [pc EXCEPT ![p] = "done"]
            /\ log' = [log EXCEPT ![p] =
                   @ \o StageSteps \o <<"remove_sig", "restore_dir">>]
            /\ outcome' = [outcome EXCEPT ![p] = "returned"]
            /\ result' = [result EXCEPT ![p] =
                   FailResult(p, ExcOf("UnknownTarget", "missing target",
                                       CHOOSE f \in missing : TRUE))]
            /\ cwd' = [cwd EXCEPT ![p] = RestoreDir(orig_dir)]
            /\ UNCHANGED raised
        ELSE
            /\ pc' = [pc EXCEPT ![p] = "exec"]
            /\ log' = [log EXCEPT ![p] = @ \o StageSteps]
            /\ cwd' = [cwd EXCEPT ![p] = orig_dir]
            /\ UNCHANGED <<outcome, result, raised>>
    /\ UNCHANGED <<kind, config, ctx, monitor, locked, store, fs, usesSosRun,
                   sharedForm, stepRet, modCount, changers, prior,
                   inputIsList, sigAnswer, bodyOut>>
    /\ ExecuteTask(p)

AfterBodyNoWrite(mode) == "finish"
\* Where a body that ran to completion continues: line 518, `if sig:`.
AfterBody(mode) == IF mode = "ignore" THEN "finish" ELSE "write"

\* Lines 419-516: output directories, workdir, environment variables, the
\* body (SoS_exec(task)), the classification of the way it ended, and the
\* finally block.
Body(p) ==
    /\ kind[p] = "task" /\ pc[p] = "exec"
    /\ UNCHANGED <<mvars, evars, runtime, startCwd>>
    /\ cwd' = [cwd EXCEPT ![p] = RestoreDir(@)]
    /\ \E out \in BodyOutcomes \cup (StagingFailures \cap runtime) :
        LET how == ClassifyOutcome(out) IN
        /\ log' = [log EXCEPT ![p] =
               @ \o StepsUntil(BodySteps, out) \o <<"restore_dir">>]
        /\ bodyOut' = [bodyOut EXCEPT ![p] = IF out \in BodyOutcomes THEN out ELSE @]
        /\ IF how = "continue" THEN
                \E d \in Digests :
                    /\ fs' = [f \in Files |-> IF f \in OutputFiles THEN d ELSE fs[f]]
                    /\ changers' = Changed(p)
                    /\ ctx' = [ctx EXCEPT ![p].v = d]
                    /\ pc' = [pc EXCEPT ![p] = AfterBody(config[p].sig_mode)]
                    /\ UNCHANGED <<outcome, result, raised>>
            ELSE IF how = "raise" THEN
                /\ pc' = [pc EXCEPT ![p] = "done"]
                /\ outcome' = [outcome EXCEPT ![p] = "raised"]
                /\ raised' = [raised EXCEPT ![p] = ExcOf("KeyboardInterrupt", "", "")]
                /\ UNCHANGED <<fs, changers, ctx, result>>
            ELSE
                /\ pc' = [pc EXCEPT ![p] = "done"]
                /\ outcome' = [outcome EXCEPT ![p] = "returned"]
                /\ \/ /\ out = "stop"
                      /\ result' = [result EXCEPT ![p] = StopResult(p)]
                   \/ /\ out = "cmdfail"
                      /\ \E rc \in CmdReturnCodes :
                            result' = [result EXCEPT ![p] = CmdFailResult(p, rc)]
                   \/ /\ out \notin {"stop", "cmdfail"} \cup StagingFailures
                      /\ result' = [result EXCEPT ![p] =
                             FailResult(p, ExcOf("Exception", "body failed", ""))]
                   \/ /\ out \in StagingFailures
                      /\ result' = [result EXCEPT ![p] = FailResult(p, StagingError(out))]
                /\ UNCHANGED <<fs, changers, ctx, raised>>
    /\ UNCHANGED <<kind, config, monitor, locked, store, usesSosRun, sharedForm,
                   stepRet, modCount, prior, inputIsList, sigAnswer>>
    /\ ExecuteTask(p)

\* Line 519: sig.write()
SigWrite(p) ==
    /\ kind[p] = "task" /\ pc[p] = "write"
    /\ UNCHANGED <<mvars, evars, runtime, startCwd>>
    /\ store' = [store EXCEPT ![TaskFp] = CurrentRecord(fs, ctx[p].v)]
    /\ pc' = [pc EXCEPT ![p] = "finish"]
    /\ log' = [log EXCEPT ![p] = Append(@, "write")]
    /\ UNCHANGED <<kind, config, ctx, monitor, locked, fs, usesSosRun,
                   sharedForm, outcome, result, raised, stepRet, modCount,
                   changers, prior, inputIsList, sigAnswer, bodyOut>>
    /\ UNCHANGED cwd
    /\ ExecuteTask(p)

\* Lines 518-524: sig.release() when there is a signature, and the result.
Finish(p) ==
    /\ kind[p] = "task" /\ pc[p] = "finish"
    /\ UNCHANGED <<mvars, evars, runtime, startCwd>>
    /\ LET hasSig == config[p].sig_mode # "ignore" IN
        /\ locked' = IF hasSig THEN locked \ {p} ELSE locked
        /\ log' = [log EXCEPT ![p] =
               @ \o (IF hasSig THEN <<"release">> ELSE << >>) \o <<"collect">>]
    /\ pc' = [pc EXCEPT ![p] = "done"]
    /\ IF SharedExportFails(sharedForm, ctx[p]) THEN
            /\ outcome' = [outcome EXCEPT ![p] = "raised"]
            /\ raised' = [raised EXCEPT ![p] =
                   ExcOf("ValueError", "Unavailable shared variable", "v")]
            /\ UNCHANGED result
       ELSE
            /\ outcome' = [outcome EXCEPT ![p] = "returned"]
            /\ result' = [result EXCEPT ![p] =
                   CollectTaskResult(p, ctx[p], fs, sharedForm, FALSE)]
            /\ UNCHANGED raised
    /\ UNCHANGED <<kind, config, ctx, monitor, store, fs, usesSosRun, sharedForm,
                   stepRet, modCount, changers, prior, inputIsList, sigAnswer,
                   bodyOut>>
    /\ UNCHANGED cwd
    /\ ExecuteTask(p)

\* ------------------------------------------------------- validate_step_sig
\* executor_utils.py, lines 161-202, for a step whose env.config['sig_mode']
\* is mode.
ValidateStepSig(p) ==
    /\ kind[p] = "step" /\ pc[p] = "start"
    /\ UNCHANGED <<mvars, evars, runtime, startCwd>>
    /\ \E mode \in SigModes :
        LET op == StepStoreOp(mode, usesSosRun)
            v == Validate(store[StepFp], fs)
            built == op = "write_rebuild" /\ CanWrite(TRUE, fs)
            d == StepDecision(mode, usesSosRun, v, built)
            rec == CurrentRecord(fs, ctx[p].v)
        IN
        /\ store' = IF built THEN [store EXCEPT ![StepFp] = rec] ELSE store
        /\ config' = [config EXCEPT ![p].sig_mode = mode]
        /\ stepRet' = [stepRet EXCEPT ![p] =
               [act |-> d.act, value |-> d.value, err |-> d.err,
                detail |-> IF d.act = "raise"
                           THEN (IF op = "validate" THEN v.reason ELSE mode)
                           ELSE "",
                content |-> IF d.value = "matched" THEN v
                            ELSE IF d.value = "content" THEN rec
                            ELSE NoRecord]]
        /\ log' = [log EXCEPT ![p] = IF op = "none" THEN << >> ELSE <<op>>]
        /\ sigAnswer' = [sigAnswer EXCEPT ![p] = StoreAnswer(op, v, built, rec)]
    /\ pc' = [pc EXCEPT ![p] = "done"]
    /\ prior' = [prior EXCEPT ![p] = Ended]
    /\ UNCHANGED <<kind, ctx, monitor, locked, fs, usesSosRun, sharedForm,
                   outcome, result, raised, modCount, changers, inputIsList, bodyOut>>
    /\ UNCHANGED <<cwd, resFile, exitCode>>

\* ------------------------------------------------------------ environment
\* A file is created, changed or removed from outside of the task.
ModifyFile ==
    /\ modCount < MaxModify
    /\ UNCHANGED <<mvars, evars, runtime, startCwd>>
    /\ \E p \in Procs : pc[p] # "start"
    /\ \E f \in Files :
        \E d \in (0..MaxDigest) \ {fs[f]} :
            fs' = [fs EXCEPT ![f] = d]
    /\ modCount' = modCount + 1
    /\ changers' = Changed(Env)
    /\ UNCHANGED <<kind, pc, config, ctx, monitor, locked, store, usesSosRun,
                   sharedForm, outcome, result, raised, stepRet, log,
                   prior, inputIsList, sigAnswer, bodyOut>>
    /\ UNCHANGED <<cwd, resFile, exitCode>>

Next ==
    \/ \E p \in Procs : Begin(p)
    \/ \E p \in Procs : Lock(p)
    \/ \E p \in Procs : Decide(p)
    \/ \E p \in Procs : Stage(p)
    \/ \E p \in Procs : Body(p)
    \/ \E p \in Procs : SigWrite(p)
    \/ \E p \in Procs : Finish(p)
    \/ \E p \in Procs : ValidateStepSig(p)
    \/ ModifyFile

Spec == Init /\ [][Next]_vars

TypeOK ==
    /\ locked \subseteq Procs
    /\ \A p \in Procs : pc[p] \in {"start", "lock", "decide", "stage", "exec",
                                      "write", "finish", "done"}

\* ------------------------------------------------------------ master task
\* The sub-tasks of one stack: sub-task i has the id i, the _index i - 1,
\* its own targets, and a body that binds the variable v to i.
SubIndex(i) == i - 1
SubInputFiles(i) == {<<"in", i>>}
SubOutputFiles(i) == {<<"out", i>>}
SubFs(i) == [x \in SubInputFiles(i) \cup SubOutputFiles(i) |-> 1]
SubSnapshot(i, inherited) ==
    [input |-> SubInputFiles(i), output |-> SubOutputFiles(i),
     depends |-> {}, v |-> inherited]
SubMatched(i) ==
    [kind |-> "matched", input |-> DigestMap(SubInputFiles(i), SubFs(i)),
     output |-> DigestMap(SubOutputFiles(i), SubFs(i)),
     depends |-> DigestMap({}, SubFs(i)), vars |-> i]
SubMismatch == [kind |-> "mismatch", reason |-> "missing signature"]

Returned(r, e) == [how |-> "returned", res |-> r, env |-> e]
Raised(x, e) == [how |-> "raised", exc |-> x, env |-> e]

\* collect_task_result for sub-task i with the context c
SubCollect(i, c, form, skip) ==
    IF SharedExportFails(form, c)
    THEN Raised(ExcOf("ValueError", "Unavailable shared variable", "v"), c.v)
    ELSE Returned(CollectResult(i, c, SubFs(i), form, skip, SubInputFiles(i),
                                SubOutputFiles(i), {}, SubIndex(i)), c.v)

\* Lines 471-508 for sub-task i: the result of a try block that ended with
\* an exception other than KeyboardInterrupt.
SubExceptResult(i, out) ==
    IF out = "stop" THEN StopResult(i)
    ELSE IF out = "cmdfail" THEN CmdFailResult(i, CHOOSE rc \in CmdReturnCodes : TRUE)
    ELSE FailResult(i, ExcOf("Exception", "body failed", ""))

\* _execute_task((i, tdef), ...), lines 246-524, as one step: how the
\* invocation for sub-task i ends in a process whose env.sos_dict binds v to
\* `inherited`, in signature mode `mode`, when the store answers as in.sig
\* says, the existence check finds what in.missing says and the body ends
\* as in.body says. The fields body and sigw tell whether the body was run
\* and which write the invocation made to the Signature Store, the field inh
\* what env.sos_dict bound v to when the invocation began.
SubTask(i, mode, in, form, inherited) ==
    LET v == IF in.sig THEN SubMatched(i) ELSE SubMismatch
        built == TaskStoreOp(mode) = "write_rebuild" /\ in.sig
        d == IF mode = "ignore" THEN Run ELSE TaskDecision(mode, v, built)
        c0 == SubSnapshot(i, inherited)
        c1 == IF d.adopt THEN Adopt(c0, v) ELSE c0
        how == ClassifyOutcome(in.body)
        bodyRan == d.act = "run" /\ ~in.missing
        o == IF d.act = "raise"
             THEN Raised(ExcOf("RuntimeError", d.err,
                               IF v.kind = "mismatch" /\ TaskStoreOp(mode) = "validate"
                               THEN v.reason ELSE mode), c1.v)
             ELSE IF d.act = "skip" THEN SubCollect(i, c1, form, TRUE)
             ELSE IF in.missing
             THEN Returned(FailResult(i, ExcOf("UnknownTarget", "missing target",
                                               <<"in", i>>)), c1.v)
             ELSE IF how = "raise"
             THEN Raised(ExcOf("KeyboardInterrupt", "", ""), c1.v)
             ELSE IF how = "return" THEN Returned(SubExceptResult(i, in.body), c1.v)
             ELSE SubCollect(i, [c1 EXCEPT !.v = i], form, FALSE)
    IN  [inh |-> inherited,
         body |-> IF bodyRan THEN in.body ELSE "none",
         sigw |-> IF d.act = "skip" /\ built THEN "write_rebuild"
                  ELSE IF bodyRan /\ how = "continue" /\ AfterBody(mode) = "write"
                  THEN "write" ELSE "none"] @@ o

\* dict.update
Update(a, b) ==
    [k \in DOMAIN a \cup DOMAIN b |-> IF k \in DOMAIN b THEN b[k] ELSE a[k]]

\* Lines 211-214 and 226-229: the results that carry an exception
WithException(results) ==
    {k \in DOMAIN results : "exception" \in DOMAIN results[k]}
Failed(results) ==
    [j \in 1..Cardinality(WithException(results)) |->
        results[CHOOSE k \in WithException(results) :
                    Cardinality({l \in WithException(results) : l <= k}) = j].task]
LastException(results) ==
    results[CHOOSE k \in WithException(results) :
                \A l \in WithException(results) : l <= k].exception
FirstException(results) ==
    results[CHOOSE k \in WithException(results) :
                \A l \in WithException(results) : k <= l].exception

\* Lines 217 and 232
MasterFailure(m, results) ==
    [ret_code |-> 1, exception |-> FirstException(results), task |-> m]

RECURSIVE AllResAnySkipped(_, _)
AllResAnySkipped(results, n) ==
    IF n = 0
    THEN [ret_code |-> 0, output |-> << >>, subtasks |-> << >>,
          shared |-> << >>, skipped |-> FALSE]
    ELSE LET a == AllResAnySkipped(results, n - 1)
             x == results[n]
         IN  [ret_code |-> a.ret_code + x.ret_code,
              output |-> Update(a.output, x.output),
              subtasks |-> Update(a.subtasks, [t \in {n} |-> x]),
              shared |-> Update(a.shared, x.shared),
              skipped |-> a.skipped \/ x.skipped]

\* Lines 235-243: all_res after the first n results
RECURSIVE AllRes(_, _)
AllRes(results, n) ==
    IF n = 0
    THEN [ret_code |-> 0, output |-> << >>, subtasks |-> << >>,
          shared |-> << >>, skipped |-> FALSE]
    ELSE LET a == AllRes(results, n - 1)
             x == results[n]
         IN  [ret_code |-> a.ret_code + x.ret_code,
              output |-> Update(a.output, x.output),
              subtasks |-> Update(a.subtasks, [t \in {n} |-> x]),
              shared |-> Update(a.shared, x.shared),
              skipped |-> x.skipped]

\* Lines 238-243 read these keys of every result
AggregatedKeys == {"ret_code", "output", "shared", "skipped"}
MissingKey(results) ==
    \E k \in DOMAIN results : ~(AggregatedKeys \subseteq DOMAIN results[k])

\* No simple task and no step: only the masters run.
NoTasks ==
    /\ kind = [p \in Procs |-> "none"]
    /\ pc = [p \in Procs |-> "start"]
    /\ config = [p \in Procs |-> [run_mode |-> "run", sig_mode |-> DefaultSigMode]]
    /\ ctx = [p \in Procs |-> [input |-> {}, output |-> {}, depends |-> {}, v |-> Unbound]]
    /\ monitor = [p \in Procs |-> FALSE]
    /\ locked = {}
    /\ store = [fp \in Fingerprints |-> NoRecord]
    /\ fs = [f \in Files |-> Absent]
    /\ usesSosRun = FALSE
    /\ inputIsList = TRUE
    /\ outcome = [p \in Procs |-> "pending"]
    /\ result = [p \in Procs |-> NoResult]
    /\ raised = [p \in Procs |-> NoExc]
    /\ stepRet = [p \in Procs |-> [act |-> "pending"]]
    /\ log = [p \in Procs |-> << >>]
    /\ modCount = 0
    /\ changers = [p \in Procs |-> {}]
    /\ prior = [p \in Procs |-> {}]
    /\ sigAnswer = [p \in Procs |-> NoAnswer]
    /\ bodyOut = [p \in Procs |-> "none"]
    /\ cwd = [p \in Procs |-> "start_dir"]
    /\ startCwd = cwd
    /\ runtime = {}
    /\ resFile = [p \in Procs |-> NoFile]
    /\ exitCode = [p \in Procs |-> "none"]

\* The same task definition (the same stack, the same arguments) is run
\* twice, by two master processes that differ in num_workers only: first
\* the one with num_workers = 1, then the one with a pool.
MInit ==
    /\ NoTasks
    /\ NoEnv
    /\ sharedForm \in SharedForms
    /\ mPc = [m \in Masters |-> "start"]
    /\ \E nw \in 2..MaxWorkers :
          numWorkers = [m \in Masters |-> IF m = "seq" THEN 1 ELSE nw]
    /\ mArgs \in [runmode : RunModes, sigmode : SigModes \cup {NoneArg}]
    /\ subIn \in UNION {[1..n -> SubInputs] : n \in 0..NumSubs}
    /\ subSt = [m \in Masters |-> [i \in DOMAIN subIn |-> "new"]]
    /\ subOut = [m \in Masters |-> [i \in DOMAIN subIn |-> NoOutcome]]
    /\ wjob = [m \in Masters |-> [w \in Workers \ {0} |-> 0]]
    /\ wenv = [m \in Masters |-> [w \in Workers |-> Unbound]]
    /\ got = [m \in Masters |-> << >>]
    /\ mOut = [m \in Masters |-> NoOutcome]
    /\ mReport = [m \in Masters |-> << >>]

\* Lines 293-297 in every sub-task: all of them get the master's arguments.
MasterMode == EffectiveSigMode(DefaultSigMode, mArgs.runmode, mArgs.sigmode)

\* Lines 219-225: the next sub-task of the stack, in the master's process.
SeqSubTask(m) ==
    /\ mPc[m] = "start" /\ numWorkers[m] <= 1
    /\ Len(got[m]) < Len(subIn)
    /\ LET i == Len(got[m]) + 1
           o == [nth |-> i - 1] @@
                SubTask(i, MasterMode, subIn[i], sharedForm, wenv[m][0])
       IN
        /\ subSt' = [subSt EXCEPT ![m][i] = "finished"]
        /\ subOut' = [subOut EXCEPT ![m][i] = o]
        /\ wenv' = [wenv EXCEPT ![m][0] = o.env]
        /\ IF o.how = "raised" THEN
              /\ mPc' = [mPc EXCEPT ![m] = "done"]
              /\ mOut' = [mOut EXCEPT ![m] = [how |-> "raised", exc |-> o.exc]]
              /\ UNCHANGED got
           ELSE
              /\ got' = [got EXCEPT ![m] = Append(@, o.res)]
              /\ UNCHANGED <<mPc, mOut>>
    /\ UNCHANGED <<numWorkers, mArgs, subIn, wjob, mReport>>
    /\ UNCHANGED <<tvars, evars>>

\* Lines 198-204: the pool, and one apply_async per sub-task.
PoolSubmit(m) ==
    /\ mPc[m] = "start" /\ numWorkers[m] > 1
    /\ \A n \in Masters : numWorkers[n] <= 1 => mPc[n] = "done"
    /\ mPc' = [mPc EXCEPT ![m] = "get"]
    /\ subSt' = [subSt EXCEPT ![m] = [i \in DOMAIN subIn |-> "queued"]]
    /\ UNCHANGED <<numWorkers, mArgs, subIn, subOut, wjob, wenv, got, mOut, mReport>>
    /\ UNCHANGED <<tvars, evars>>

Queued(m) == {i \in DOMAIN subIn : subSt[m][i] = "queued"}
EndedSubs(m) == {i \in DOMAIN subIn : subSt[m][i] \in {"finished", "lost"}}

\* An idle worker process of the pool takes the oldest queued sub-task.
PoolTake(m, w) ==
    /\ mPc[m] = "get" /\ w \in 1..numWorkers[m]
    /\ wjob[m][w] = 0 /\ Queued(m) # {}
    /\ LET i == CHOOSE k \in Queued(m) : \A l \in Queued(m) : k <= l IN
        /\ wjob' = [wjob EXCEPT ![m][w] = i]
        /\ subSt' = [subSt EXCEPT ![m][i] = "running"]
    /\ UNCHANGED <<mPc, numWorkers, mArgs, subIn, subOut, wenv, got, mOut, mReport>>
    /\ UNCHANGED <<tvars, evars>>

\* The worker's call of _execute_task ends. An exception is sent back to
\* the master; a KeyboardInterrupt ends the worker process instead (the
\* pool replaces it) and the sub-task never gets a result. The field nth of
\* the outcome tells how many sub-tasks of the stack had ended before.
PoolComplete(m, w) ==
    /\ mPc[m] = "get" /\ w \in 1..numWorkers[m]
    /\ wjob[m][w] # 0
    /\ LET i == wjob[m][w]
           o == [nth |-> Cardinality(EndedSubs(m))] @@
                SubTask(i, MasterMode, subIn[i], sharedForm, wenv[m][w])
           killed == o.how = "raised" /\ o.exc.type = "KeyboardInterrupt"
       IN
        /\ subSt' = [subSt EXCEPT ![m][i] = IF killed THEN "lost" ELSE "finished"]
        /\ subOut' = [subOut EXCEPT ![m][i] = o]
        /\ wenv' = [wenv EXCEPT ![m][w] = IF killed THEN Unbound ELSE o.env]
    /\ wjob' = [wjob EXCEPT ![m][w] = 0]
    /\ UNCHANGED <<mPc, numWorkers, mArgs, subIn, got, mOut, mReport>>
    /\ UNCHANGED <<tvars, evars>>

\* Lines 205-206: results[idx] = r.get(), in stack order; get() raises the
\* exception the sub-task ended with.
PoolGet(m) ==
    /\ mPc[m] = "get" /\ Len(got[m]) < Len(subIn)
    /\ LET k == Len(got[m]) + 1 IN
        /\ subSt[m][k] = "finished"
        /\ IF subOut[m][k].how = "raised" THEN
              /\ mPc' = [mPc EXCEPT ![m] = "done"]
              /\ mOut' = [mOut EXCEPT ![m] = [how |-> "raised", exc |-> subOut[m][k].exc]]
              /\ UNCHANGED got
           ELSE
              /\ got' = [got EXCEPT ![m] = Append(@, subOut[m][k].res)]
              /\ UNCHANGED <<mPc, mOut>>
    /\ UNCHANGED <<numWorkers, mArgs, subIn, subSt, subOut, wjob, wenv, mReport>>
    /\ UNCHANGED <<tvars, evars>>

\* Lines 207-217 and 226-244: with all results at hand, the failure report
\* or the aggregate.
MCollect(m) ==
    /\ \/ mPc[m] = "start" /\ numWorkers[m] <= 1
       \/ mPc[m] = "get"
    /\ Len(got[m]) = Len(subIn)
    /\ mPc' = [mPc EXCEPT ![m] = "done"]
    /\ LET results == got[m] IN
        IF WithException(results) # {} THEN
            /\ mReport' = [mReport EXCEPT ![m] = Failed(results)]
            /\ mOut' = [mOut EXCEPT ![m] =
                   [how |-> "returned", res |-> MasterFailure(m, results)]]
        ELSE IF MissingKey(results) THEN
            /\ mOut' = [mOut EXCEPT ![m] =
                   [how |-> "raised", exc |-> ExcOf("KeyError", "skipped", "")]]
            /\ UNCHANGED mReport
        ELSE
            /\ mOut' = [mOut EXCEPT ![m] =
                   [how |-> "returned", res |-> AllRes(results, Len(results))]]
            /\ UNCHANGED mReport
    /\ UNCHANGED <<numWorkers, mArgs, subIn, subSt, subOut, wjob, wenv, got>>
    /\ UNCHANGED <<tvars, evars>>

MNext ==
    \/ \E m \in Masters : SeqSubTask(m)
    \/ \E m \in Masters : PoolSubmit(m)
    \/ \E m \in Masters, w \in Workers : PoolTake(m, w)
    \/ \E m \in Masters, w \in Workers : PoolComplete(m, w)
    \/ \E m \in Masters : PoolGet(m)
    \/ \E m \in Masters : MCollect(m)

MasterSpec == MInit /\ [][MNext]_vars

\* ------------------------------------------------- environment staging
\* Simple tasks only, without shared variables, with any combination of
\* the _runtime options that environment staging reads, started in cur_dir
\* or in another directory, and nothing changing the files from outside.
StagingInit ==
    /\ NoMaster
    /\ NoEnv
    /\ kind = [p \in Procs |-> "task"]
    /\ pc = [p \in Procs |-> "start"]
    /\ config = [p \in Procs |-> [run_mode |-> "run", sig_mode |-> DefaultSigMode]]
    /\ ctx = [p \in Procs |-> [input |-> {}, output |-> {}, depends |-> {}, v |-> Unbound]]
    /\ monitor = [p \in Procs |-> FALSE]
    /\ locked = {}
    /\ store = [fp \in Fingerprints |-> NoRecord]
    /\ fs \in [Files -> {Absent, 1}]
    /\ usesSosRun = FALSE
    /\ sharedForm = "absent"
    /\ inputIsList \in BOOLEAN
    /\ outcome = [p \in Procs |-> "pending"]
    /\ result = [p \in Procs |-> NoResult]
    /\ raised = [p \in Procs |-> NoExc]
    /\ stepRet = [p \in Procs |-> [act |-> "pending"]]
    /\ log = [p \in Procs |-> << >>]
    /\ modCount = 0
    /\ changers = [p \in Procs |-> {}]
    /\ prior = [p \in Procs |-> {}]
    /\ sigAnswer = [p \in Procs |-> NoAnswer]
    /\ bodyOut = [p \in Procs |-> "none"]
    /\ \E dir \in {"start_dir", "cur_dir"} : cwd = [p \in Procs |-> dir]
    /\ startCwd = cwd
    /\ resFile = [p \in Procs |-> NoFile]
    /\ exitCode = [p \in Procs |-> "none"]
    /\ runtime \in SUBSET RuntimeOptions

StagingNext ==
    \/ \E p \in Procs : Begin(p)
    \/ \E p \in Procs : Lock(p)
    \/ \E p \in Procs : Decide(p)
    \/ \E p \in Procs : Stage(p)
    \/ \E p \in Procs : Body(p)
    \/ \E p \in Procs : SigWrite(p)
    \/ \E p \in Procs : Finish(p)

StagingSpec == StagingInit /\ [][StagingNext]_vars

\* Simple tasks as above, or the masters of one stack.
AllInit == StagingInit \/ MInit
AllNext == StagingNext \/ MNext
AllSpec == AllInit /\ [][AllNext]_vars

\* ----------------------------------------------- environment variables
\* Lines 438-451 for one entry (key, value) of sos_dict['_runtime']['env'].
\* A string is a sequence of characters; os.pathsep is ":".

\* s[i..] begins with sep
StartsAt(s, sep, i) ==
    /\ i + Len(sep) - 1 <= Len(s)
    /\ SubSeq(s, i, i + Len(sep) - 1) = sep

\* str.split(sep) for a non-empty sep: the pieces of s between the
\* occurrences of sep, found from left to right
RECURSIVE SplitFrom(_, _, _, _)
SplitFrom(s, sep, i, piece) ==
    IF i > Len(s) THEN <<piece>>
    ELSE IF StartsAt(s, sep, i)
    THEN <<piece>> \o SplitFrom(s, sep, i + Len(sep), << >>)
    ELSE SplitFrom(s, sep, i + 1, Append(piece, s[i]))
Split(s, sep) == SplitFrom(s, sep, 1, << >>)

\* the keys of an OrderedDict filled in the order of `entries`
RECURSIVE OrderedKeys(_)
OrderedKeys(entries) ==
    IF entries = << >> THEN << >>
    ELSE LET front == SubSeq(entries, 1, Len(entries) - 1)
             last == entries[Len(entries)]
             keys == OrderedKeys(front)
         IN  IF \E j \in DOMAIN keys : keys[j] = last THEN keys
             ELSE Append(keys, last)

\* sep.join(entries)
RECURSIVE Join(_, _)
Join(entries, sep) ==
    IF entries = << >> THEN << >>
    ELSE IF Len(entries) = 1 THEN entries[1]
    ELSE entries[1] \o sep \o Join(Tail(entries), sep)

\* Lines 443-448: new_path is filled from value.split(os.pathsep) and then
\* from value.split(os.environ[key])
NewPath(value, inherited) ==
    OrderedKeys(Split(value, PathSep) \o Split(value, inherited))

\* one entry of the env option is staged in a process whose environment is
\* any environment
EnvInit ==
    /\ NoTasks
    /\ NoMaster
    /\ sharedForm = "absent"
    /\ envKey \in [pathLike : BOOLEAN]
    /\ envValue \in Strings
    /\ inheritedEnv \in {[set |-> FALSE]} \cup [set : {TRUE}, val : Strings]
    /\ osEnviron = inheritedEnv
    /\ envOut = "pending"

\* Lines 441-451, the body of the loop. str.split raises ValueError for an
\* empty separator.
StageEnv ==
    /\ envOut = "pending"
    /\ IF envKey.pathLike /\ osEnviron.set
       THEN IF osEnviron.val = << >>
            THEN /\ envOut' = "ValueError"
                 /\ UNCHANGED osEnviron
            ELSE /\ envOut' = "merged"
                 /\ osEnviron' = [set |-> TRUE,
                                  val |-> Join(NewPath(envValue, osEnviron.val), PathSep)]
       ELSE /\ envOut' = "assigned"
            /\ osEnviron' = [set |-> TRUE, val |-> envValue]
    /\ UNCHANGED <<envKey, envValue, inheritedEnv>>
    /\ UNCHANGED <<tvars, mvars>>

EnvNext == StageEnv
EnvSpec == EnvInit /\ [][EnvNext]_vars

\* ------------------------------------------------------------- properties
TaskProcs == {p \in Procs : kind[p] = "task"}
StepProcs == {p \in Procs : kind[p] = "step"}
Has(p, e) == \E i \in DOMAIN log[p] : log[p][i] = e
EndedTask(p) == kind[p] = "task" /\ pc[p] = "done"
\* every step of A that occurs in l occurs before every step of B
Precedes(l, A, B) ==
    \A i, j \in DOMAIN l : (l[i] \in A /\ l[j] \in B) => i < j
CachingSteps == {"lock", "validate", "write_rebuild"}
StoreSteps == {"validate", "write_rebuild", "write"}

\* C1: an invocation of _execute_task whose signature mode is not 'ignore'
\* no longer holds the fingerprint lock when it has ended, whatever the
\* outcome.
C1_LockReleasedAtEnd ==
    \A p \in Procs :
        (EndedTask(p) /\ config[p].sig_mode # "ignore") => p \notin locked

C3_MonitorStoppedAtEnd ==
    \A p \in Procs : EndedTask(p) => ~monitor[p]

\* C4: every validate() and write() on the Signature Store of the task's
\* fingerprint is made by an invocation that holds the fingerprint lock,
\* and at most one invocation holds the lock.
StoreOpBy(p) ==
    /\ kind[p] = "task"
    /\ \E i \in DOMAIN log'[p] : i > Len(log[p]) /\ log'[p][i] \in StoreSteps

C4_StoreOpsUnderLock ==
    [][/\ Cardinality(locked') <= 1
       /\ store'[TaskFp] # store[TaskFp] => \E p \in TaskProcs : StoreOpBy(p)
       /\ \A p \in Procs : StoreOpBy(p) => (p \in locked /\ p \in locked')]_vars

C4_Witness ==
    \E p, q \in TaskProcs :
        /\ p # q /\ p \in locked /\ pc[q] = "lock"
        /\ Has(p, "validate") /\ Has(p, "write")

\* C5: in 'default' and 'force' mode a record is written only after the
\* body ran to completion; when the body raises, the invocation ends
\* without a store write, and an error gives a result with a non-zero
\* return code and the exception.
C5_WriteOnlyAfterSuccess ==
    \A p \in TaskProcs :
        config[p].sig_mode \in {"default", "force"} =>
            /\ Has(p, "write") =>
                  (bodyOut[p] = "ok" /\ Precedes(log[p], {"body"}, {"write"}))
            /\ ~Has(p, "write_rebuild")
            /\ bodyOut[p] \notin {"none", "ok"} =>
                  /\ pc[p] = "done"
                  /\ ~Has(p, "write")
                  /\ bodyOut[p] \in {"cmdfail", "error"} =>
                        /\ outcome[p] = "returned"
                        /\ result[p].ret_code # 0
                        /\ "exception" \in DOMAIN result[p]
                  /\ bodyOut[p] = "interrupt" => outcome[p] = "raised"

C5_Witness ==
    \E p, q \in TaskProcs :
        /\ config[p].sig_mode = "force" /\ bodyOut[p] = "error" /\ pc[p] = "done"
        /\ config[q].sig_mode = "default" /\ Has(q, "write")

\* C6: in 'assert' mode a mismatch reported by validate() ends the call
\* with an error carrying the mismatch description, without running the
\* body and without a store write; a match skips the task and adopts the
\* resolved values. Both in _execute_task and in validate_step_sig.
C6_AssertStrict ==
    \A p \in Procs :
        (config[p].sig_mode = "assert" /\ sigAnswer[p].kind # "none") =>
            IF kind[p] = "task" THEN
                /\ pc[p] = "done"
                /\ ~Has(p, "body") /\ ~Has(p, "write") /\ ~Has(p, "write_rebuild")
                /\ IF sigAnswer[p].kind = "mismatch" THEN
                      /\ outcome[p] = "raised"
                      /\ raised[p] = ExcOf("RuntimeError", "Signature mismatch",
                                           sigAnswer[p].reason)
                   ELSE
                      /\ ctx[p] = [input |-> DOMAIN sigAnswer[p].input,
                                   output |-> DOMAIN sigAnswer[p].output,
                                   depends |-> DOMAIN sigAnswer[p].depends,
                                   v |-> sigAnswer[p].vars]
                      /\ outcome[p] = "returned" => result[p].skipped = TRUE
                      /\ outcome[p] = "raised" => raised[p].type = "ValueError"
            ELSE
                IF sigAnswer[p].kind = "mismatch" THEN
                    /\ stepRet[p].act = "raise"
                    /\ stepRet[p].err = "Signature mismatch"
                    /\ stepRet[p].detail = sigAnswer[p].reason
                ELSE
                    /\ stepRet[p].act = "return"
                    /\ stepRet[p].value = "matched"
                    /\ stepRet[p].content = sigAnswer[p]

C6_Witness ==
    \E p, q \in TaskProcs :
        /\ config[p].sig_mode = "assert" /\ sigAnswer[p].kind = "mismatch"
        /\ sigAnswer[p].reason = "changed target" /\ outcome[p] = "raised"
        /\ Has(q, "write") /\ pc[q] = "done"

\* C7: in 'default' mode, a run that follows a successful run of the same
\* task, with nothing changed but by the body of the first run, is a skip:
\* no body, skipped = true, return code 0, the output digests of the first.
Completed(p) ==
    /\ EndedTask(p) /\ outcome[p] = "returned" /\ bodyOut[p] = "ok"
    /\ result[p].ret_code = 0

C7_SecondRunSkips ==
    \A p, q \in TaskProcs :
        ( /\ p # q /\ p \in prior[q] /\ EndedTask(q)
          /\ config[p].sig_mode = "default" /\ config[q].sig_mode = "default"
          /\ Completed(p)
          /\ changers[p] \subseteq {q} )
        => /\ ~Has(q, "body")
           /\ outcome[q] = "returned"
           /\ result[q].skipped = TRUE
           /\ result[q].ret_code = 0
           /\ result[q].output = result[p].output

C7_Witness ==
    \E p, q \in TaskProcs :
        /\ p # q /\ p \in prior[q] /\ EndedTask(q)
        /\ config[p].sig_mode = "default" /\ config[q].sig_mode = "default"
        /\ Completed(p) /\ changers[p] \subseteq {q}
        /\ result[q].skipped = TRUE

\* C8: in 'build' mode, when write(rebuild=True) succeeds a record is
\* stored, the body is not run and the task is reported as skipped with the
\* digests of the existing output files; when it fails the task is not
\* skipped and takes the normal execution path (which ends before the body
\* when the change to cur_dir, the existence check or the staging fails).
AllExist(m) == \A f \in DOMAIN m : m[f] # Absent

C8_BuildSynthesis ==
    \A p \in Procs :
        (config[p].sig_mode = "build" /\ sigAnswer[p].kind \in {"written", "notwritten"}) =>
            IF kind[p] = "task" THEN
                IF sigAnswer[p].kind = "written" THEN
                    /\ pc[p] = "done" /\ ~Has(p, "body")
                    /\ p \in locked => store[TaskFp] = sigAnswer[p].rec
                    /\ AllExist(sigAnswer[p].rec.output)
                    /\ outcome[p] = "returned" =>
                          /\ result[p].skipped = TRUE
                          /\ result[p].ret_code = 0
                          /\ result[p].output = sigAnswer[p].rec.output
                ELSE
                    /\ (outcome[p] = "returned" /\ "skipped" \in DOMAIN result[p])
                          => result[p].skipped = FALSE
                    /\ pc[p] = "done" =>
                          \/ Has(p, "body")
                          \/ /\ Has(p, "cur_dir") /\ outcome[p] = "returned"
                             /\ result[p].ret_code # 0
                          \/ /\ Has(p, "cur_dir") /\ outcome[p] = "raised"
                             /\ raised[p].type = "UnboundLocalError"
            ELSE
                IF sigAnswer[p].kind = "written" THEN
                    /\ stepRet[p].act = "return" /\ stepRet[p].value = "content"
                    /\ stepRet[p].content = sigAnswer[p].rec
                    /\ AllExist(stepRet[p].content.output)
                ELSE
                    /\ stepRet[p].act = "return" /\ stepRet[p].value = "None"

C8_Witness ==
    \E p, q \in TaskProcs :
        /\ config[p].sig_mode = "build" /\ sigAnswer[p].kind = "notwritten"
        /\ Has(p, "body") /\ pc[p] = "done"
        /\ config[q].sig_mode = "build" /\ sigAnswer[q].kind = "written"
        /\ outcome[q] = "returned"

\* C9: in 'default' mode a task or step whose signature variables contain
\* sos_run is never skipped from the Signature Store.
C9_SosRunNeverSkipped ==
    \A p \in Procs :
        (usesSosRun /\ config[p].sig_mode = "default" /\ pc[p] = "done") =>
            IF kind[p] = "task" THEN
                /\ ~(Has(p, "collect") /\ ~Has(p, "body"))
                /\ outcome[p] = "returned" =>
                      ("skipped" \in DOMAIN result[p] => result[p].skipped = FALSE)
            ELSE
                /\ stepRet[p].act = "return" /\ stepRet[p].value = "empty"

\* C10: a signature mode outside ignore, default, assert, build, force ends
\* _execute_task (run mode not dryrun) and validate_step_sig with an error
\* at the caching decision; no body is run and no record is written.
C10_UnrecognizedMode ==
    \A p \in Procs :
        config[p].sig_mode \notin RecognizedModes =>
            /\ ~Has(p, "body") /\ \A e \in StoreSteps : ~Has(p, e)
            /\ IF kind[p] = "task" THEN
                  /\ config[p].run_mode # "dryrun"
                  /\ pc[p] \in {"lock", "decide", "done"}
                  /\ pc[p] = "done" =>
                        /\ outcome[p] = "raised"
                        /\ raised[p] = ExcOf("RuntimeError",
                               "Unrecognized signature mode", config[p].sig_mode)
               ELSE
                  /\ pc[p] = "done"
                  /\ stepRet[p].act = "raise"
                  /\ stepRet[p].err = "Unrecognized signature mode"
                  /\ stepRet[p].detail = config[p].sig_mode

C10_Witness ==
    \E p \in TaskProcs, q \in StepProcs :
        /\ config[p].sig_mode \notin RecognizedModes /\ outcome[p] = "raised"
        /\ config[q].sig_mode \notin RecognizedModes /\ pc[q] = "done"

\* ----------------------------------------------------- master properties
MDone(m) == mPc[m] = "done"
\* every sub-task of the stack ended with a result (none ended by raising)
AllSubResults(m) == Len(got[m]) = Len(subIn)
FailingSubs(m) == {k \in DOMAIN got[m] : got[m][k].ret_code # 0}
RECURSIVE SumRetCodes(_, _)
SumRetCodes(results, n) ==
    IF n = 0 THEN 0 ELSE SumRetCodes(results, n - 1) + results[n].ret_code
\* the union of the maps found under `key` in the results of S
UnionOf(results, S, key) ==
    LET dom == UNION {DOMAIN results[k][key] : k \in S} IN
    [x \in dom |-> LET k == CHOOSE l \in S : x \in DOMAIN results[l][key]
                   IN  results[k][key][x]]
RangeOf(seq) == {seq[j] : j \in DOMAIN seq}

\* C11: with k >= 1 failing sub-tasks the master result has a non-zero
\* return code, the failure report names exactly the failing sub-tasks and
\* the output map is the union of the output maps of the successful ones;
\* with k = 0 the return code is the sum of the sub-task return codes (0),
\* output and shared maps are the unions over all sub-tasks and every
\* sub-task's result is recorded under its id.
C11_MasterAggregation ==
    \A m \in Masters :
        (MDone(m) /\ AllSubResults(m)) =>
            LET results == got[m]
                all == DOMAIN results
                failing == FailingSubs(m)
            IN  /\ mOut[m].how = "returned"
                /\ IF failing # {} THEN
                      /\ mOut[m].res.ret_code # 0
                      /\ RangeOf(mReport[m]) = failing
                      /\ "output" \in DOMAIN mOut[m].res
                      /\ mOut[m].res.output = UnionOf(results, all \ failing, "output")
                   ELSE
                      /\ mOut[m].res.ret_code = SumRetCodes(results, Len(results))
                      /\ mOut[m].res.ret_code = 0
                      /\ mOut[m].res.output = UnionOf(results, all, "output")
                      /\ mOut[m].res.shared = UnionOf(results, all, "shared")
                      /\ \A k \in all : mOut[m].res.subtasks[k] = results[k]

\* what C12 compares: failure status, output map and shared-variable map
Observed(o) ==
    IF o.how = "raised" THEN [ended |-> "raised"]
    ELSE [ended |-> "returned",
          nonzero |-> o.res.ret_code # 0,
          payload |-> "exception" \in DOMAIN o.res,
          output |-> IF "output" \in DOMAIN o.res THEN o.res.output ELSE << >>,
          shared |-> IF "shared" \in DOMAIN o.res THEN o.res.shared ELSE << >>]

\* C12: for the same stack and the same things met by its sub-tasks, the
\* master with num_workers = 1 and the master with a pool, whatever the
\* order in which the workers take and complete the sub-tasks, end with the
\* same failure status, output map and shared-variable map.
C12_WorkerPoolEquivalence ==
    \A m, n \in Masters :
        (numWorkers[m] <= 1 /\ numWorkers[n] > 1 /\ MDone(m) /\ MDone(n)) =>
            Observed(mOut[m]) = Observed(mOut[n])

\* a sub-task invocation that ended in a failure (a user interrupt is not
\* one: it is meant to end everything)
SubFailed(o) ==
    \/ o.how = "raised" /\ o.exc.type # "KeyboardInterrupt"
    \/ o.how = "returned" /\ o.res.ret_code # 0

\* C13: a failure inside a sub-task (body exception, command failure,
\* missing target, assert-mode mismatch, unrecognized mode, missing shared
\* variable) gives a failure result of the sub-task, and the master does not
\* end by raising but returns a result marked failed, on both paths.
C13_SubFailureNeverRaises ==
    \A m \in Masters :
        /\ \A i \in DOMAIN subIn :
              (subOut[m][i].how # "pending" /\ SubFailed(subOut[m][i])) =>
                  /\ subOut[m][i].how = "returned"
                  /\ "exception" \in DOMAIN subOut[m][i].res
        /\ (MDone(m) /\ \E i \in DOMAIN subIn :
                subOut[m][i].how # "pending" /\ SubFailed(subOut[m][i])) =>
              /\ mOut[m].how = "returned"
              /\ mOut[m].res.ret_code # 0

\* C14: when a master invocation has ended (no user interrupt given), every
\* sub-task of its stack has been executed and has finished: a failing
\* sub-task neither cancels nor prevents its siblings, on both paths.
C14_AllSubTasksFinish ==
    \A m \in Masters :
        (MDone(m) /\ \A i \in DOMAIN subIn : subIn[i].body # "interrupt") =>
            \A i \in DOMAIN subIn : subSt[m][i] = "finished"

\* ------------------------------------------------ simple-task properties
AbsentTarget == \E f \in InputFiles \cup DependFiles : fs[f] = Absent

\* C15: while an input or dependency target (not a step reference) is
\* absent, no invocation runs the body or ends as a success or a skip, and
\* a reported failure comes after remove_sig on the absent target; a step
\* reference is never the missing target.
C15_TargetsMustExist ==
    /\ (modCount = 0 /\ AbsentTarget) =>
          \A p \in TaskProcs :
              /\ ~Has(p, "body")
              /\ (pc[p] = "done" /\ outcome[p] = "returned") =>
                    /\ result[p].ret_code # 0
                    /\ Precedes(log[p], {"remove_sig"}, {"restore_dir"})
                    /\ Has(p, "remove_sig")
    /\ \A p \in TaskProcs :
          (outcome[p] = "returned" /\ "exception" \in DOMAIN result[p]
             /\ result[p].exception.type = "UnknownTarget") =>
                result[p].exception.detail \notin StepRefs

\* the try block of lines 382-462 was entered and left before the body
EndedBeforeBody(p) == EndedTask(p) /\ Has(p, "cur_dir") /\ ~Has(p, "body")

\* C16: a simple task that fails during environment staging (workdir,
\* environment variables, prepend_path) or at the existence check of its
\* targets ends by raising the error to its caller; no result record is
\* returned.
C16_StagingFailurePropagates ==
    \A p \in TaskProcs :
        EndedBeforeBody(p) => (outcome[p] = "raised" /\ result[p] = NoResult)

\* the sub-tasks of master m whose body was interrupted
Interrupted(m) ==
    {i \in DOMAIN subIn : subSt[m][i] = "finished" /\ subOut[m][i].body = "interrupt"}

\* C17: an interrupt signal during the body of a simple task, or of a
\* sub-task that the master runs sequentially, is raised again as
\* KeyboardInterrupt to the caller: no result is returned, nothing is written
\* to the Signature Store for that invocation and no result file is
\* persisted; the sequential master ends with the same interrupt.
C17_InterruptPropagates ==
    /\ \A p \in TaskProcs :
          bodyOut[p] = "interrupt" =>
             /\ pc[p] = "done"
             /\ outcome[p] = "raised"
             /\ raised[p].type = "KeyboardInterrupt"
             /\ result[p] = NoResult
             /\ resFile[p] = NoFile /\ exitCode[p] = "none"
             /\ ~Has(p, "write")
             /\ Has(p, "write_rebuild") => sigAnswer[p].kind = "notwritten"
    /\ \A m \in Masters :
          numWorkers[m] <= 1 =>
             \A i \in Interrupted(m) :
                /\ subOut[m][i].how = "raised"
                /\ subOut[m][i].exc.type = "KeyboardInterrupt"
                /\ subOut[m][i].sigw = "none"
                /\ Len(got[m]) = i - 1
                /\ MDone(m)
                /\ mOut[m] = [how |-> "raised", exc |-> subOut[m][i].exc]
                /\ mReport[m] = <<>>

\* the sequential master was interrupted in its second sub-task, after the
\* first one had returned its result
C17_Witness ==
    \E m \in Masters :
        /\ numWorkers[m] <= 1 /\ MDone(m)
        /\ 2 \in Interrupted(m)
        /\ Len(got[m]) = 1

\* a simple task was interrupted in its body
C17_SimpleInterrupted ==
    \E p \in TaskProcs : bodyOut[p] = "interrupt" /\ pc[p] = "done"

\* a result as the stop branch of lines 471-476 must give it
IsStopResult(r) ==
    /\ r.ret_code = 0
    /\ r.input = EmptyColl /\ r.output = EmptyColl /\ r.depends = EmptyColl
    /\ r.shared = EmptyColl
    /\ "exception" \notin DOMAIN r

\* C18: when the body raises the cooperative stop signal the invocation
\* returns a result with return code 0, empty input, output and depends, an
\* empty shared map and no error payload, for a simple task (whose exit
\* status is then 0) and for a sub-task (which the master does not count
\* among the failed ones).
C18_StopIsSuccess ==
    /\ \A p \in TaskProcs :
          bodyOut[p] = "stop" =>
             /\ pc[p] = "done" /\ outcome[p] = "returned"
             /\ IsStopResult(result[p])
             /\ exitCode[p] = 0
             /\ resFile[p] = [written |-> TRUE, res |-> result[p]]
    /\ \A m \in Masters : \A i \in DOMAIN subIn :
          (subSt[m][i] = "finished" /\ subOut[m][i].body = "stop") =>
             /\ subOut[m][i].how = "returned"
             /\ IsStopResult(subOut[m][i].res)
             /\ MDone(m) => subOut[m][i].res.task \notin RangeOf(mReport[m])

\* a simple task whose body stopped has ended
C18_Witness ==
    \E p \in TaskProcs :
        /\ bodyOut[p] = "stop" /\ pc[p] = "done"
        /\ Has(p, "body") /\ ~Has(p, "write")

\* C19: when the invocation for a simple task has ended, whichever way, the
\* working directory of the process is the one that was in effect when the
\* invocation began, before the change to cur_dir or workdir.
C19_WorkingDirRestored ==
    \A p \in TaskProcs : pc[p] = "done" => cwd[p] = startCwd[p]

\* C20: collect_task_result, for every accepted form of the shared option:
\* if the requested names are bound in the Execution Context the call
\* succeeds and the shared map of the result, keyed by the task's index,
\* holds exactly the requested names with their context values; if a
\* requested name is unbound the call fails with an error naming it.
C20_SharedExport ==
    \A p \in TaskProcs :
        (pc[p] = "done" /\ Has(p, "collect")) =>
            IF \A n \in SharedNames(sharedForm) : ctx[p].v # Unbound
            THEN /\ outcome[p] = "returned"
                 /\ result[p].shared =
                       [i \in {TaskIndex} |->
                           [n \in SharedNames(sharedForm) |-> ctx[p].v]]
            ELSE /\ outcome[p] = "raised"
                 /\ raised[p].type = "ValueError"
                 /\ raised[p].detail \in SharedNames(sharedForm)

\* C21: no binding passes from one sub-task to a sibling executed afterwards
\* in the same process: every sub-task of a master, on the sequential path
\* and in a pool worker, starts with an Execution Context in which the
\* variable v, which no snapshot defines, is unbound.
C21_NoStateLeak ==
    \A m \in Masters : \A i \in DOMAIN subIn :
        subSt[m][i] = "finished" => subOut[m][i].inh = Unbound

\* execute_task, lines 104-137, for a master task: it returns the ret_code
\* of the result the master invocation returned
MasterReturned(m) == mOut[m].how = "returned"
MasterExitCode(m) == mOut[m].res.ret_code

\* an invocation that completed, was skipped or stopped cooperatively
SubSucceeded(o) == o.how = "returned" /\ "exception" \notin DOMAIN o.res
TaskSucceeded(p) == outcome[p] = "returned" /\ "exception" \notin DOMAIN result[p]

\* C22: execute_task returns 0 when the task succeeded (completed, skipped
\* or cooperatively stopped; for a master task, when every sub-task did) and
\* does not return 0 when the task or one of its sub-tasks failed; for a
\* master without failures the value is the sum of the sub-task return codes.
C22_ExitCode ==
    /\ \A p \in TaskProcs :
          pc[p] = "done" =>
             IF TaskSucceeded(p)
             THEN resFile[p].written /\ exitCode[p] = 0
             ELSE resFile[p].written => exitCode[p] # 0
    /\ \A m \in Masters :
          MDone(m) =>
             IF \A i \in DOMAIN subIn : SubSucceeded(subOut[m][i])
             THEN /\ MasterReturned(m)
                  /\ MasterExitCode(m) = 0
                  /\ MasterExitCode(m) = SumRetCodes(got[m], Len(got[m]))
             ELSE MasterReturned(m) => MasterExitCode(m) # 0

\* C23: when execute_task is left for a task that ended completed or failed
\* (a mismatch in assert mode, a missing input target and a missing shared
\* variable included; a user interrupt is not), the result record of the
\* task has been persisted.
C23_ResultPersisted ==
    \A p \in TaskProcs :
        (pc[p] = "done" /\ bodyOut[p] # "interrupt") =>
            /\ resFile[p].written
            /\ outcome[p] = "returned"
            /\ resFile[p].res = result[p]

\* the last sub-task's skip flag, FALSE for an empty stack
LastSkipped(results) ==
    IF Len(results) = 0 THEN FALSE ELSE results[Len(results)].skipped

\* C24: the skipped flag of a master result produced without failing
\* sub-tasks is the skip flag of the last sub-task of the stack alone, with
\* and without a pool; it is FALSE for an empty stack.
C24_SkippedIsLast ==
    \A m \in Masters :
        (MDone(m) /\ MasterReturned(m) /\ "exception" \notin DOMAIN mOut[m].res) =>
            /\ AllSubResults(m)
            /\ mOut[m].res.skipped = LastSkipped(got[m])
            /\ \A i \in DOMAIN subIn : got[m][i] = subOut[m][i].res

\* the pool master returned an aggregate of a skipped sub-task followed by
\* an executed one
C24_Witness ==
    \E m \in Masters :
        /\ numWorkers[m] > 1 /\ MDone(m) /\ MasterReturned(m)
        /\ Len(got[m]) = 2
        /\ "exception" \notin DOMAIN mOut[m].res
        /\ got[m][1].skipped /\ ~got[m][2].skipped
        /\ ~mOut[m].res.skipped

\* the masters returned the aggregate of an empty stack
C24_EmptyStack ==
    \E m \in Masters :
        MDone(m) /\ MasterReturned(m) /\ Len(subIn) = 0 /\ ~mOut[m].res.skipped

\* the entries of a path value
Entries(s) == Split(s, PathSep)
Occurs(e, entries) == \E j \in DOMAIN entries : entries[j] = e

\* C25: when the override of a path-like variable that is already set has
\* been applied, the value of the variable consists of the configured
\* entries first, in their order, followed by the inherited entries that
\* are not among them, without duplicates: no inherited entry is lost.
C25_PathMerge ==
    (envOut # "pending" /\ envKey.pathLike /\ inheritedEnv.set) =>
        /\ envOut = "merged"
        /\ osEnviron.val =
              Join(OrderedKeys(Entries(envValue) \o Entries(inheritedEnv.val)), PathSep)
        /\ \A j \in DOMAIN Entries(inheritedEnv.val) :
              Occurs(Entries(inheritedEnv.val)[j], Entries(osEnviron.val))

\* C26: a result that a sub-task invocation returns without an error
\* payload (completed, skipped or cooperatively stopped) has every field
\* the aggregation reads, and the master of a stack whose sub-tasks all
\* returned such results returns an aggregate instead of raising.
C26_ResultFields ==
    \A m \in Masters :
        /\ \A i \in DOMAIN subIn :
              SubSucceeded(subOut[m][i]) =>
                  AggregatedKeys \subseteq DOMAIN subOut[m][i].res
        /\ (MDone(m) /\ \A i \in DOMAIN subIn : SubSucceeded(subOut[m][i])) =>
              /\ MasterReturned(m)
              /\ "subtasks" \in DOMAIN mOut[m].res

\* the sub-tasks of master m that returned a result with an error payload
Payloads(m) ==
    {i \in DOMAIN subIn :
        subOut[m][i].how = "returned" /\ "exception" \in DOMAIN subOut[m][i].res}

\* C27: the error payload of a master's failure result is the payload of
\* the first failing sub-task in stack order, on the sequential path and
\* with a pool, in whatever order the workers complete the sub-tasks.
C27_FirstFailurePayload ==
    \A m \in Masters :
        /\ (MDone(m) /\ MasterReturned(m) /\ "exception" \in DOMAIN mOut[m].res) =>
              /\ Payloads(m) # {}
              /\ \E i \in Payloads(m) :
                    /\ \A k \in Payloads(m) : i <= k
                    /\ mOut[m].res.exception = subOut[m][i].res.exception
        /\ (MDone(m) /\ AllSubResults(m) /\ Payloads(m) # {}) =>
              (MasterReturned(m) /\ "exception" \in DOMAIN mOut[m].res)

\* the pool master returned a failure result for two failing sub-tasks with
\* different payloads, the second of which was completed first
C27_Witness ==
    \E m \in Masters :
        /\ numWorkers[m] > 1 /\ MDone(m) /\ MasterReturned(m)
        /\ Payloads(m) = {1, 2}
        /\ subOut[m][1].res.exception # subOut[m][2].res.exception
        /\ subOut[m][2].nth = 0
        /\ mOut[m].res.exception = subOut[m][1].res.exception

\* the modes validate_step_sig has a branch for
StepSigModes == {"default", "assert", "build", "force"}

\* C28: in every recognized signature mode validate_step_sig either raises
\* or returns a mapping: the resolved values (of a matched or newly built
\* record) when the step is to be skipped, the empty mapping when it must
\* execute; it never ends without a value.
C28_StepSigReturnsMapping ==
    \A p \in StepProcs :
        (pc[p] = "done" /\ config[p].sig_mode \in StepSigModes) =>
            \/ stepRet[p].act = "raise"
            \/ /\ stepRet[p].act = "return"
               /\ stepRet[p].value \in {"matched", "content", "empty"}
               /\ stepRet[p].value = "empty" <=> stepRet[p].content = NoRecord

====
